---- MODULE Spec2Model ----
(***************************************************************************)
(* Slack AI chatbot (src/app.py): the request handlers of the FastAPI      *)
(* application, POST /slack/events and POST /slack/commands, with the two  *)
(* outbound calls they make (the completion API and chat.postMessage).     *)
(*                                                                         *)
(* Every request is one task with its own locals; the process keeps no     *)
(* state between requests.  `calls` is the log of outbound calls in the    *)
(* order in which they are issued, which is what the remote services       *)
(* observe.  Strings that the code inspects character by character (the    *)
(* event text) are sequences of one-character strings.                     *)
(***************************************************************************)
EXTENDS Integers, Sequences, FiniteSets, TLC

VARIABLES pc, request, verdict, text, response_text, response, calls

vars == <<pc, request, verdict, text, response_text, response, calls>>

(***************************************************************************)
(* Bounds.                                                                 *)
(***************************************************************************)
\* the event text is a concatenation of at most MaxParts pieces
MaxParts == 3
\* number of requests in flight in the concurrent specification
NumReq == 2
\* one task per request
Tasks == 1..NumReq

(***************************************************************************)
(* Values.                                                                 *)
(***************************************************************************)
\* Python's None: a key that is absent from a dict, a header that was not sent
None == "<None>"

\* X-Slack-Request-Timestamp of a fresh request, and the two kinds of
\* X-Slack-Signature: the HMAC of "v0:<Ts>:<raw body of the request>" under
\* the signing secret, and any other string
Ts == "1700000000"
SigGood == "v0=hmac(secret,v0:1700000000:body)"
SigBad == "v0=bad"

HeaderVals == {None, "", Ts, SigGood, SigBad}

\* the fixed apology of call_openai
Fallback == "fallback apology"

Mention == <<"<", "@", "U", ">">>
Pieces == {Mention, <<"a">>, <<" ">>, <<"<">>}

RECURSIVE TextsUpTo(_)
TextsUpTo(n) ==
    IF n = 0 THEN {<<>>}
    ELSE LET T == TextsUpTo(n - 1) IN T \cup {t \o p : t \in T, p \in Pieces}

Texts == TextsUpTo(MaxParts)

\* Python truthiness of an optional string
Truthy(v) == v # None /\ v # ""

(***************************************************************************)
(* re.sub(r'<@[^>]+>', '', text).strip()                                   *)
(***************************************************************************)
\* index of the '>' that ends a match of <@[^>]+> starting at i, 0 if none:
\* "<@", then at least one character other than '>', then the first '>'
MatchEnd(s, i) ==
    IF i + 1 <= Len(s) /\ s[i] = "<" /\ s[i + 1] = "@"
    THEN LET closers == {j \in (i + 2)..Len(s) : s[j] = ">"} IN
         IF closers = {} THEN 0
         ELSE LET j == CHOOSE k \in closers : \A l \in closers : k <= l IN
              IF j >= i + 3 THEN j ELSE 0
    ELSE 0

RECURSIVE SubFrom(_, _)
SubFrom(s, i) ==
    IF i > Len(s) THEN <<>>
    ELSE IF MatchEnd(s, i) # 0 THEN SubFrom(s, MatchEnd(s, i) + 1)
    ELSE <<s[i]>> \o SubFrom(s, i + 1)

\* re.sub: every leftmost non-overlapping match is removed
ReSubMentions(s) == SubFrom(s, 1)

RECURSIVE LStrip(_)
LStrip(s) == IF s # <<>> /\ Head(s) = " " THEN LStrip(Tail(s)) ELSE s

RECURSIVE RStrip(_)
RStrip(s) ==
    IF s # <<>> /\ s[Len(s)] = " " THEN RStrip(SubSeq(s, 1, Len(s) - 1)) ELSE s

\* str.strip()
Strip(s) == RStrip(LStrip(s))

(***************************************************************************)
(* Inbound requests.                                                       *)
(***************************************************************************)
Channels == {"C1", "C2"}
Stamps == {"111.1", "222.2"}
EnvelopeTypes == {"url_verification", "event_callback", "app_rate_limited"}
EventTypes == {"app_mention", "message", None}
BotIds == {None, "", "B1"}
Challenges == {None, "", "abc"}

\* the nested event of an envelope: a JSON object, an absent key (the code
\* then reads {}), or a JSON value that is not an object
EventObjects(texts, channels, stamps) ==
    [kind : {"object"}, bot_id : BotIds, type : EventTypes, text : texts,
     channel : channels, ts : stamps]

EventAbsent ==
    [kind |-> "absent", bot_id |-> None, type |-> None, text |-> <<>>,
     channel |-> None, ts |-> None]

EventNonObject == [EventAbsent EXCEPT !.kind = "nonobject"]

\* a decoded JSON object on POST /slack/events
Envelopes(types, challenges, events) ==
    [endpoint : {"events"}, body : {"object"}, type : types,
     challenge : challenges, event : events,
     x_slack_signature : HeaderVals, x_slack_request_timestamp : HeaderVals]

\* a body that is not a JSON object: bytes that are not UTF-8, text that is
\* not JSON, JSON that is not an object
BadBodies ==
    [endpoint : {"events"}, body : {"undecodable", "invalid_json", "non_object"},
     type : {None}, challenge : {None}, event : {EventAbsent},
     x_slack_signature : HeaderVals, x_slack_request_timestamp : HeaderVals]

\* the form fields of POST /slack/commands
Commands ==
    [endpoint : {"commands"}, text : TextsUpTo(1), channel_id : Channels]

Inputs ==
    BadBodies
    \cup Envelopes(EnvelopeTypes, Challenges,
                   {EventAbsent, EventNonObject}
                   \cup EventObjects({<<>>, Mention \o <<"a">>}, {"C1"}, {"111.1"}))
    \cup Envelopes({"event_callback"}, {None}, EventObjects(Texts, Channels, Stamps))
    \cup Commands

\* the requests of the concurrent specification: a body that is rejected, a
\* rejected signature, mentions on either channel (one of them with headers
\* that the signature step accepts) and a command
MentionOn(channel, ts, signature, timestamp) ==
    [endpoint |-> "events", body |-> "object", type |-> "event_callback",
     challenge |-> None,
     event |-> [kind |-> "object", bot_id |-> None, type |-> "app_mention",
                text |-> Mention \o <<"a">>, channel |-> channel, ts |-> ts],
     x_slack_signature |-> signature, x_slack_request_timestamp |-> timestamp]

ConcInputs ==
    {q \in BadBodies : /\ q.body = "invalid_json"
                       /\ q.x_slack_signature = None
                       /\ q.x_slack_request_timestamp = None}
    \cup {MentionOn("C1", "111.1", None, None),
          MentionOn("C2", "222.2", Ts, SigGood),
          MentionOn("C1", "222.2", SigBad, Ts)}
    \cup {q \in Commands : q.text = <<"a">> /\ q.channel_id = "C2"}

NoRequest == [endpoint |-> "none"]

(***************************************************************************)
(* Responses and outbound calls.                                           *)
(***************************************************************************)
Resp(status, kind, value) == [status |-> status, kind |-> kind, value |-> value]

NoResponse == Resp(0, "none", "")
\* JSONResponse(content={"status": "ok"})
StatusOk == Resp(200, "status", "ok")
\* JSONResponse(content={"status": "error", "message": str(e)}, status_code=500)
InternalError == Resp(500, "status", "error")
\* HTTPException(status_code, detail): FastAPI answers {"detail": detail}
HttpError(status, detail) == Resp(status, "detail", detail)

\* what the completion API does: it answers with a text, or the call fails
Raise == "<raise>"
CompletionOutcomes == {"hi there", "sure", Raise}
\* what chat.postMessage does
PostOutcomes == {"ok", "SlackApiError", "Exception"}

CompletionCall(r, message, o) ==
    [api |-> "completion", req |-> r, user_message |-> message,
     channel |-> None, text |-> None, thread_ts |-> None, outcome |-> o]

PostCall(r, channel, txt, thread_ts, o) ==
    [api |-> "chat_postMessage", req |-> r, user_message |-> <<>>,
     channel |-> channel, text |-> txt, thread_ts |-> thread_ts, outcome |-> o]

(***************************************************************************)
(* SignatureVerifier.is_valid(body, timestamp, signature): the signature   *)
(* is valid when it is the HMAC of "v0:<timestamp>:<body>" under the       *)
(* signing secret.  It never raises: malformed input, such as a timestamp  *)
(* that is not a number, is invalid.                                       *)
(***************************************************************************)
IsNumber(s) == s = Ts

generate_signature(timestamp, body) ==
    IF timestamp = Ts THEN SigGood ELSE "v0=hmac(secret,other)"

is_valid(body, timestamp, signature) ==
    IF timestamp = None \/ signature = None THEN "False"
    ELSE IF ~IsNumber(timestamp) THEN "False"
    ELSE IF generate_signature(timestamp, body) = signature THEN "True"
    ELSE "False"

\* the verdict of a request on which the verifier was not called
NotCalled == "not called"

(***************************************************************************)
(* The decisions of the handlers.                                          *)
(***************************************************************************)
\* the bot check reading a key that events do not carry
IsBotMessage_WrongKey(event) == FALSE

\* if event.get("bot_id")
IsBotMessage(event) == Truthy(event.bot_id)

\* if challenge
HasChallenge(q) == Truthy(q.challenge)

\* if x_slack_signature and x_slack_request_timestamp
HasSignatureHeaders(q) ==
    Truthy(q.x_slack_signature) /\ Truthy(q.x_slack_request_timestamp)

\* signature_verifier.is_valid(body, x_slack_signature, x_slack_request_timestamp)
VerifierResult(q) ==
    is_valid(q.body, q.x_slack_signature, q.x_slack_request_timestamp)

\* handle_message: text = re.sub(r'<@[^>]+>', '', text).strip()
MentionText(event) == Strip(ReSubMentions(event.text))

\* the emptiness guard left out
ShouldAnswer_Unguarded(txt) == TRUE

\* handle_message: if not text: return
ShouldAnswer(txt) == txt # <<>>

\* the failure of the completion call passed on instead of the apology
call_openai_NoFallback(o) == o

\* call_openai: the content of the completion, the apology when the call fails
call_openai(o) == IF o = Raise THEN Fallback ELSE o

\* the completion text kept in a variable that all requests share: the reply
\* of one request sends the text of another request that is about to reply
EventReply_SharedText(r, o) ==
    LET others == {t \in Tasks : t # r /\ pc[t] = "post"}
        from == IF others = {} THEN r ELSE CHOOSE t \in others : TRUE
    IN  PostCall(r, request[r].event.channel, response_text[from], request[r].event.ts, o)

\* handle_message: chat_postMessage(channel=channel, text=response_text, thread_ts=ts)
EventReply(r, o) ==
    PostCall(r, request[r].event.channel, response_text[r], request[r].event.ts, o)

\* slack_commands: chat_postMessage(channel=channel_id, text=response_text)
CommandReply(r, o) ==
    PostCall(r, request[r].channel_id, response_text[r], None, o)

\* slack_commands: the response, after the post returned or raised
CommandResponse(r, o) ==
    IF o = "ok" THEN Resp(200, "in_channel", response_text[r])
    ELSE Resp(500, "ephemeral", "error")

(***************************************************************************)
(* Actions.                                                                *)
(***************************************************************************)
Finish(r, resp) ==
    /\ pc' = [pc EXCEPT ![r] = "done"]
    /\ response' = [response EXCEPT ![r] = resp]

Goto(r, label) ==
    /\ pc' = [pc EXCEPT ![r] = label]
    /\ UNCHANGED response

\* a request reaches one of the two endpoints
Arrive(r) ==
    /\ pc[r] = "idle"
    /\ \E q \in (IF \E t \in Tasks : pc[t] = "unused" THEN Inputs ELSE ConcInputs) :
          request' = [request EXCEPT ![r] = q]
    /\ Goto(r, "received")
    /\ UNCHANGED <<verdict, text, response_text, calls>>

\* slack_events, up to the end of the handshake branch
ParseEnvelope(r) ==
    /\ pc[r] = "received"
    /\ request[r].endpoint = "events"
    /\ LET q == request[r] IN
       IF q.body = "undecodable" THEN Finish(r, InternalError)
       ELSE IF q.body = "invalid_json" THEN Finish(r, HttpError(400, "Invalid JSON"))
       ELSE IF q.body = "non_object" THEN Finish(r, InternalError)
       ELSE IF q.type = "url_verification"
            THEN IF HasChallenge(q) THEN Finish(r, Resp(200, "challenge", q.challenge))
                 ELSE Finish(r, HttpError(400, "Missing challenge"))
       ELSE Goto(r, "verify")
    /\ UNCHANGED <<request, verdict, text, response_text, calls>>

\* slack_events, the signature step
VerifySignature(r) ==
    /\ pc[r] = "verify"
    /\ LET q == request[r] IN
       IF HasSignatureHeaders(q)
       THEN /\ verdict' = [verdict EXCEPT ![r] = VerifierResult(q)]
            /\ IF VerifierResult(q) = "True" THEN Goto(r, "route")
               ELSE Finish(r, HttpError(401, "Invalid signature"))
       ELSE Goto(r, "route") /\ UNCHANGED verdict
    /\ UNCHANGED <<request, text, response_text, calls>>

\* slack_events, the routing of the event, and handle_message up to the
\* call of call_openai
RouteEvent(r) ==
    /\ pc[r] = "route"
    /\ LET q == request[r] IN
       IF q.type # "event_callback" THEN Finish(r, StatusOk) /\ UNCHANGED text
       ELSE IF q.event.kind = "nonobject" THEN Finish(r, InternalError) /\ UNCHANGED text
       ELSE IF IsBotMessage(q.event) THEN Finish(r, StatusOk) /\ UNCHANGED text
       ELSE IF q.event.type # "app_mention" THEN Finish(r, StatusOk) /\ UNCHANGED text
       ELSE IF ShouldAnswer(MentionText(q.event))
            THEN Goto(r, "call_openai") /\ text' = [text EXCEPT ![r] = MentionText(q.event)]
            ELSE Finish(r, StatusOk) /\ UNCHANGED text
    /\ UNCHANGED <<request, verdict, response_text, calls>>

\* slack_commands, up to the call of call_openai
ParseCommand(r) ==
    /\ pc[r] = "received"
    /\ request[r].endpoint = "commands"
    /\ text' = [text EXCEPT ![r] = request[r].text]
    /\ Goto(r, "call_openai")
    /\ UNCHANGED <<request, verdict, response_text, calls>>

\* call_openai
CallOpenAI(r) ==
    /\ pc[r] = "call_openai"
    /\ \E o \in CompletionOutcomes :
          /\ calls' = Append(calls, CompletionCall(r, text[r], o))
          /\ response_text' = [response_text EXCEPT ![r] = call_openai(o)]
    /\ Goto(r, "post")
    /\ UNCHANGED <<request, verdict, text>>

\* chat_postMessage and the rest of the handler
PostMessage(r) ==
    /\ pc[r] = "post"
    /\ \E o \in PostOutcomes :
          IF request[r].endpoint = "events"
          THEN calls' = Append(calls, EventReply(r, o)) /\ Finish(r, StatusOk)
          ELSE calls' = Append(calls, CommandReply(r, o)) /\ Finish(r, CommandResponse(r, o))
    /\ UNCHANGED <<request, verdict, text, response_text>>

Next ==
    \E r \in Tasks :
        \/ Arrive(r)
        \/ ParseEnvelope(r)
        \/ VerifySignature(r)
        \/ RouteEvent(r)
        \/ ParseCommand(r)
        \/ CallOpenAI(r)
        \/ PostMessage(r)

\* the tasks in `open` wait for a request, the others never get one
InitOf(open) ==
    /\ pc = [r \in Tasks |-> IF r \in open THEN "idle" ELSE "unused"]
    /\ request = [r \in Tasks |-> NoRequest]
    /\ verdict = [r \in Tasks |-> NotCalled]
    /\ text = [r \in Tasks |-> <<>>]
    /\ response_text = [r \in Tasks |-> ""]
    /\ response = [r \in Tasks |-> NoResponse]
    /\ calls = <<>>

\* one request at a time, every input
Init == InitOf({1})
Spec == Init /\ [][Next]_vars

\* NumReq requests in flight, their steps interleaved
InitConc == InitOf(Tasks)
SpecConc == InitConc /\ [][Next]_vars

(***************************************************************************)
(* What the properties speak about.                                        *)
(***************************************************************************)
Done(r) == pc[r] = "done"
OnEvents(r) == request[r].endpoint = "events"
OnCommands(r) == request[r].endpoint = "commands"
\* a request on /slack/events whose body is a JSON object
IsEnvelope(r) == OnEvents(r) /\ request[r].body = "object"
\* an envelope whose nested event is a JSON object
HasEvent(r) == IsEnvelope(r) /\ request[r].event.kind = "object"

CallsOf(r, api) == {i \in 1..Len(calls) : calls[i].req = r /\ calls[i].api = api}
NoOutbound(r) == \A i \in 1..Len(calls) : calls[i].req # r

\* the headers that the chat platform sends with this body
ValidlySigned(q) == q.x_slack_request_timestamp = Ts /\ q.x_slack_signature = SigGood
\* a header that was sent with a value
Sent(h) == h # None /\ h # ""
\* the signature step lets the request through: a header is missing or
\* empty, or the verifier accepted
PassedSignatureStep(r) ==
    \/ ~(Sent(request[r].x_slack_signature) /\ Sent(request[r].x_slack_request_timestamp))
    \/ verdict[r] = "True"

\* the text returned by a completion call
Returned(c) == IF c.outcome = Raise THEN Fallback ELSE c.outcome

\* the channel and the thread anchor a reply of request r belongs to
OwnChannel(r) == IF OnEvents(r) THEN request[r].event.channel ELSE request[r].channel_id
OwnThread(r) == IF OnEvents(r) THEN request[r].event.ts ELSE None

\* the event text starts with a mention token: "<@", one or more characters
\* other than '>', and '>'
FirstCloser(s) ==
    IF \E j \in 1..Len(s) : s[j] = ">"
    THEN CHOOSE j \in 1..Len(s) : s[j] = ">" /\ \A k \in 1..(j - 1) : s[k] # ">"
    ELSE 0
StartsWithMention(s) == Len(s) >= 4 /\ s[1] = "<" /\ s[2] = "@" /\ FirstCloser(s) >= 4
\* the message that follows the leading mention token, trimmed
AfterMention(s) == Strip(SubSeq(s, FirstCloser(s) + 1, Len(s)))

(***************************************************************************)
(* Properties.                                                             *)
(***************************************************************************)
\* C1: on /slack/events every outbound call (completion or reply) belongs to
\* a request whose signature the verifier checked and found valid, also when
\* the signature header, the timestamp header or both are absent.
C1_VerifiedBeforeSideEffect ==
    \A i \in 1..Len(calls) :
        OnEvents(calls[i].req) => verdict[calls[i].req] = "True"

\* C2: a non-handshake envelope with a signature header, a timestamp header
\* or both present, that is not validly signed, makes no outbound call and is
\* answered 401.
C2_InvalidSignatureRejected ==
    \A r \in Tasks :
        ( /\ IsEnvelope(r)
          /\ request[r].type # "url_verification"
          /\ request[r].x_slack_signature # None \/ request[r].x_slack_request_timestamp # None
          /\ ~ValidlySigned(request[r]) )
        => /\ NoOutbound(r)
           /\ Done(r) => response[r].status = 401

\* C3, as stated: an envelope whose event has a non-empty bot_id makes no
\* outbound call and is answered 200 {"status":"ok"}, whatever its type and
\* its signature headers.
C3_BotAlwaysOk ==
    \A r \in Tasks :
        (HasEvent(r) /\ Truthy(request[r].event.bot_id))
        => /\ NoOutbound(r)
           /\ Done(r) => response[r] = StatusOk

\* C3, amended: an envelope whose event has a non-empty bot_id makes no
\* outbound call, and it is answered 200 {"status":"ok"} when its type is not
\* url_verification and the signature step lets it through.
C3_BotNeverAnswered ==
    \A r \in Tasks :
        (HasEvent(r) /\ Truthy(request[r].event.bot_id))
        => /\ NoOutbound(r)
           /\ (Done(r) /\ request[r].type # "url_verification" /\ PassedSignatureStep(r))
                => response[r] = StatusOk

\* a mention by a bot, with a text to answer, was acknowledged
C3_Witness ==
    \E r \in Tasks :
        /\ Done(r) /\ HasEvent(r)
        /\ request[r].type = "event_callback"
        /\ request[r].event.bot_id = "B1"
        /\ request[r].event.type = "app_mention"
        /\ request[r].event.text = Mention \o <<"a">>
        /\ verdict[r] = "True"
        /\ response[r] = StatusOk

\* C4: a url_verification envelope with a challenge field, the empty string
\* included, is answered 200 {"challenge": <the value>} without a call of the
\* signature verifier, whatever the signature headers.
C4_ChallengeEchoed ==
    \A r \in Tasks :
        ( /\ IsEnvelope(r)
          /\ request[r].type = "url_verification"
          /\ request[r].challenge # None )
        => /\ verdict[r] = NotCalled
           /\ Done(r) => response[r] = Resp(200, "challenge", request[r].challenge)

\* C5: a body that is not a JSON envelope (bytes that do not decode, text
\* that is not JSON, JSON that is not an object) makes no outbound call and
\* is answered 400.
C5_MalformedRejected ==
    \A r \in Tasks :
        (OnEvents(r) /\ request[r].body # "object")
        => /\ NoOutbound(r)
           /\ Done(r) => response[r].status = 400

\* C6: a validly signed event_callback envelope whose event has no bot_id,
\* is an app_mention and has a text made of a leading mention token and a
\* message m that is not empty once trimmed: the completion is called with
\* exactly m, and then the reply is posted with the channel of the event,
\* the text the completion returned and thread_ts equal to the ts of the event.
C6_MentionAnswered ==
    \A r \in Tasks :
        ( /\ Done(r) /\ HasEvent(r)
          /\ request[r].type = "event_callback"
          /\ ValidlySigned(request[r])
          /\ request[r].event.bot_id = None
          /\ request[r].event.type = "app_mention"
          /\ StartsWithMention(request[r].event.text)
          /\ AfterMention(request[r].event.text) # <<>> )
        => \E i \in CallsOf(r, "completion") : \E j \in CallsOf(r, "chat_postMessage") :
              /\ i < j
              /\ calls[i].user_message = AfterMention(request[r].event.text)
              /\ calls[j].channel = request[r].event.channel
              /\ calls[j].text = Returned(calls[i])
              /\ calls[j].thread_ts = request[r].event.ts

\* C7: when the completion call of a request fails, call_openai returns the
\* apology, the reply is still posted, with exactly the apology, to the channel
\* and thread of the request, and the request ends with a response of its handler.
C7_FallbackReplied ==
    \A r \in Tasks : \A i \in CallsOf(r, "completion") :
        calls[i].outcome = Raise
        => /\ pc[r] \in {"post", "done"}
           /\ response_text[r] = Fallback
           /\ Done(r) =>
                /\ \E j \in CallsOf(r, "chat_postMessage") :
                      /\ i < j
                      /\ calls[j].text = Fallback
                      /\ calls[j].channel = OwnChannel(r)
                      /\ calls[j].thread_ts = OwnThread(r)
                /\ response[r].kind \in {"status", "in_channel", "ephemeral"}
                /\ OnEvents(r) => response[r] = StatusOk

\* the completion call of a mention failed and the apology was posted
C7_Witness ==
    \E r \in Tasks :
        /\ Done(r) /\ OnEvents(r)
        /\ Len(calls) = 2
        /\ calls[1].api = "completion" /\ calls[1].outcome = Raise
        /\ calls[2].api = "chat_postMessage" /\ calls[2].text = Fallback
        /\ calls[2].outcome = "ok"

\* C8: once a request is past verification, no failure of the completion
\* call or of the reply post changes the response: on both endpoints the
\* response is the success response, never a status other than 2xx.
C8_DownstreamFailureAbsorbed ==
    \A r \in Tasks :
        (Done(r) /\ ~NoOutbound(r))
        => IF OnEvents(r) THEN response[r] = StatusOk
           ELSE response[r] = Resp(200, "in_channel", response_text[r])

\* the conditions under which the code answers a mention
Answerable(q) ==
    /\ q.body = "object"
    /\ q.type = "event_callback"
    /\ q.event.kind # "nonobject"
    /\ ~Truthy(q.event.bot_id)
    /\ q.event.type = "app_mention"
    /\ Strip(ReSubMentions(q.event.text)) # <<>>

\* C9, as stated: on /slack/events an outbound call is made only for an
\* event_callback envelope whose event has no bot_id, is an app_mention and
\* has a text that is not empty once the mention is removed and the rest
\* trimmed; every other envelope makes no call and is answered 200 {"status":"ok"}.
C9_OnlyMentionsAndOthersOk ==
    \A r \in Tasks :
        IsEnvelope(r)
        => /\ ~NoOutbound(r) => Answerable(request[r])
           /\ (Done(r) /\ ~Answerable(request[r]) /\ ~Truthy(request[r].event.bot_id))
                => response[r] = StatusOk

\* C9, amended: the same condition for an outbound call; every other envelope
\* makes no call, and is answered 200 {"status":"ok"} when its type is not
\* url_verification, the signature step lets it through and its event, when
\* it has one, is a JSON object.
C9_OnlyMentions ==
    \A r \in Tasks :
        IsEnvelope(r)
        => /\ ~NoOutbound(r) => Answerable(request[r])
           /\ ( /\ Done(r) /\ ~Answerable(request[r])
                /\ request[r].type # "url_verification"
                /\ PassedSignatureStep(r)
                /\ request[r].event.kind # "nonobject" )
                => response[r] = StatusOk

\* a mention that is nothing but mention tokens and blanks was acknowledged
\* without a call
C9_Witness ==
    \E r \in Tasks :
        /\ Done(r) /\ HasEvent(r)
        /\ request[r].type = "event_callback"
        /\ request[r].event.bot_id = None
        /\ request[r].event.type = "app_mention"
        /\ request[r].event.text = Mention \o <<" ">> \o Mention
        /\ response[r] = StatusOk
        /\ calls = <<>>

\* C10: with requests handled concurrently, every request makes at most one
\* completion call and at most one reply, its reply comes after its own
\* completion call, and the reply carries the channel and thread anchor of
\* the request and the text its own completion call returned.
C10_OwnCallsOnly ==
    \A r \in Tasks :
        /\ Cardinality(CallsOf(r, "completion")) <= 1
        /\ Cardinality(CallsOf(r, "chat_postMessage")) <= 1
        /\ \A j \in CallsOf(r, "chat_postMessage") :
              /\ calls[j].channel = OwnChannel(r)
              /\ calls[j].thread_ts = OwnThread(r)
              /\ \E i \in CallsOf(r, "completion") :
                    i < j /\ calls[j].text = Returned(calls[i])

\* two requests on different channels were answered with different texts,
\* the completion call of the second made between the two calls of the first
C10_Witness ==
    /\ Len(calls) = 4
    /\ calls[1].req # calls[2].req
    /\ calls[1].api = "completion" /\ calls[2].api = "completion"
    /\ calls[3].api = "chat_postMessage" /\ calls[3].req = calls[1].req
    /\ calls[4].api = "chat_postMessage" /\ calls[4].req = calls[2].req
    /\ calls[3].channel # calls[4].channel
    /\ calls[3].text # calls[4].text
    /\ \A r \in {calls[1].req, calls[2].req} : Done(r)

====
